---- MODULE Spec2Model ----
(***************************************************************************)
(* Model of the fitness-tracker module (src/homework.py, src/main.py):     *)
(* read_package validates a (workout_type, data) pair and builds a         *)
(* Training record; the record's methods compute distance, mean speed and  *)
(* spent calories; show_training_info packs them into an InfoMessage.      *)
(*                                                                         *)
(* Numbers.  Python's int and float values are modelled as exact           *)
(* rationals (sign, numerator, denominator) over arbitrary-precision       *)
(* naturals, because the model checker's own integers are 32 bits wide and *)
(* the intermediate products of the formulas do not fit.  Binary floating  *)
(* point rounding (relative error about 1e-16) is therefore abstracted     *)
(* away: a decimal literal such as 0.65 is the rational 65/100.  Infinite  *)
(* and NaN floats are outside the model.                                   *)
(***************************************************************************)
EXTENDS Integers, Sequences, FiniteSets, TLC

VARIABLES workout_type, data, pc, raised, training, called, ret, info

vars == <<workout_type, data, pc, raised, training, called, ret, info>>

----------------------------------------------------------------------------
(* Arbitrary-precision naturals: little-endian sequences of limbs, radix   *)
(* Radix, without leading zero limbs; zero is the empty sequence.          *)

Radix == 10 ^ 4

RECURSIVE BNat(_)
BNat(n) == IF n = 0 THEN <<>> ELSE <<n % Radix>> \o BNat(n \div Radix)

RECURSIVE BTrim(_)
BTrim(s) ==
    IF s = <<>> THEN s
    ELSE IF s[Len(s)] = 0 THEN BTrim(SubSeq(s, 1, Len(s) - 1)) ELSE s

BHead(s) == IF s = <<>> THEN 0 ELSE Head(s)
BTail(s) == IF s = <<>> THEN s ELSE Tail(s)

RECURSIVE BAddC(_, _, _)
BAddC(a, b, c) ==
    IF a = <<>> /\ b = <<>>
    THEN (IF c = 0 THEN <<>> ELSE <<c>>)
    ELSE LET s == BHead(a) + BHead(b) + c
         IN  <<s % Radix>> \o BAddC(BTail(a), BTail(b), s \div Radix)

BAdd(a, b) == BAddC(a, b, 0)

RECURSIVE BSubB(_, _, _)
BSubB(a, b, borrow) ==
    IF a = <<>> THEN <<>>
    ELSE LET y == BHead(b) + borrow
             x == Head(a)
         IN  IF x >= y
             THEN <<x - y>> \o BSubB(Tail(a), BTail(b), 0)
             ELSE <<x + Radix - y>> \o BSubB(Tail(a), BTail(b), 1)

\* a - b for a >= b
BSub(a, b) == BTrim(BSubB(a, b, 0))

RECURSIVE BMulL(_, _, _)
BMulL(a, k, c) ==
    IF a = <<>>
    THEN (IF c = 0 THEN <<>> ELSE <<c>>)
    ELSE LET p == Head(a) * k + c
         IN  <<p % Radix>> \o BMulL(Tail(a), k, p \div Radix)

RECURSIVE BMul(_, _)
BMul(a, b) ==
    IF a = <<>> \/ b = <<>> THEN <<>>
    ELSE BAdd(BMulL(a, Head(b), 0),
              IF Tail(b) = <<>> THEN <<>> ELSE <<0>> \o BMul(a, Tail(b)))

RECURSIVE BLessAt(_, _, _)
BLessAt(a, b, i) ==
    IF i = 0 THEN FALSE
    ELSE IF a[i] # b[i] THEN a[i] < b[i]
    ELSE BLessAt(a, b, i - 1)

BLess(a, b) ==
    IF Len(a) # Len(b) THEN Len(a) < Len(b) ELSE BLessAt(a, b, Len(a))

----------------------------------------------------------------------------
(* Exact rationals: [neg, num, den], den nonzero, zero never negative.     *)

Rat(neg, num, den) == [neg |-> neg /\ num # <<>>, num |-> num, den |-> den]

Abs(n) == IF n < 0 THEN 0 - n ELSE n

\* the integer n
Num(n) == Rat(n < 0, BNat(Abs(n)), BNat(1))

\* the decimal literal n / d
Dec(n, d) == Rat(n < 0, BNat(Abs(n)), BNat(d))

RZero == Num(0)

RIsZero(a) == a.num = <<>>

RMul(a, b) == Rat(a.neg # b.neg, BMul(a.num, b.num), BMul(a.den, b.den))

\* a / b for b nonzero
RDiv(a, b) == Rat(a.neg # b.neg, BMul(a.num, b.den), BMul(a.den, b.num))

RAdd(a, b) ==
    LET x == BMul(a.num, b.den)
        y == BMul(b.num, a.den)
        d == BMul(a.den, b.den)
    IN  IF a.neg = b.neg THEN Rat(a.neg, BAdd(x, y), d)
        ELSE IF BLess(x, y) THEN Rat(b.neg, BSub(y, x), d)
        ELSE Rat(a.neg, BSub(x, y), d)

RNeg(a) == Rat(~a.neg, a.num, a.den)

RSub(a, b) == RAdd(a, RNeg(b))

REq(a, b) == RIsZero(RSub(a, b))

\* a < b
RLess(a, b) == RSub(a, b).neg

\* 0 <= a
RNonNeg(a) == ~a.neg

RAbs(a) == Rat(FALSE, a.num, a.den)

----------------------------------------------------------------------------
(* Python values.  A value is [kind, v]: kind is the Python type ("int",   *)
(* "float", "str", "NoneType"), v its numeric value (RZero when the type   *)
(* has none).  A raised exception travels through an expression as a value *)
(* whose kind is the exception's name.                                     *)

PyInt(n) == [kind |-> "int", v |-> Num(n)]
PyFloat(r) == [kind |-> "float", v |-> r]
PyStr == [kind |-> "str", v |-> RZero]
ZeroDivisionError == [kind |-> "ZeroDivisionError", v |-> RZero]
NoValue == [kind |-> "none", v |-> RZero]

IsNumber(x) == x.kind \in {"int", "float"}
IsRaise(x) == x.kind = "ZeroDivisionError"

\* x * y, x + y, x / y (true division), x ** 2 on numbers; the operands
\* are evaluated left to right and the first exception propagates
PyMul(x, y) ==
    IF IsRaise(x) THEN x ELSE IF IsRaise(y) THEN y ELSE PyFloat(RMul(x.v, y.v))

PyAdd(x, y) ==
    IF IsRaise(x) THEN x ELSE IF IsRaise(y) THEN y ELSE PyFloat(RAdd(x.v, y.v))

PyDiv(x, y) ==
    IF IsRaise(x) THEN x
    ELSE IF IsRaise(y) THEN y
    ELSE IF RIsZero(y.v) THEN ZeroDivisionError
    ELSE PyFloat(RDiv(x.v, y.v))

PySquare(x) == PyMul(x, x)

----------------------------------------------------------------------------
(* Class attributes.                                                       *)

M_IN_KM == 1000
MIN_IN_H == 60
CM_IN_M == 100
Running_SPEED_MULT == 18
Swimming_SPEED_MULT == 2

Running_SPEED_SHIFT == Dec(179, 100)
Swimming_SPEED_SHIFT == Dec(11, 10)
WEIGHT_MULT_1 == Dec(35, 1000)
WEIGHT_MULT_2 == Dec(29, 1000)
KMH_IN_MSEC == Dec(278, 1000)

\* Swimming inherits every method of Training but overrides LEN_STEP
LEN_STEP_NoOverride(cls) == Dec(65, 100)

LEN_STEP(cls) == IF cls = "Swimming" THEN Dec(138, 100) ELSE Dec(65, 100)

----------------------------------------------------------------------------
(* Training records: the class name and the instance attributes; an        *)
(* attribute the class does not have is NoValue.                           *)

NoTraining ==
    [cls |-> "none", action |-> NoValue, duration |-> NoValue,
     weight |-> NoValue, height |-> NoValue, length_pool |-> NoValue,
     count_pool |-> NoValue]

Running(a) ==
    [NoTraining EXCEPT !.cls = "Running", !.action = a[1], !.duration = a[2],
                       !.weight = a[3]]

SportsWalking(a) ==
    [NoTraining EXCEPT !.cls = "SportsWalking", !.action = a[1],
                       !.duration = a[2], !.weight = a[3], !.height = a[4]]

Swimming(a) ==
    [NoTraining EXCEPT !.cls = "Swimming", !.action = a[1], !.duration = a[2],
                       !.weight = a[3], !.length_pool = a[4],
                       !.count_pool = a[5]]

\* number of positional arguments each constructor takes
Arity(cls) ==
    CASE cls = "Running" -> 3
      [] cls = "SportsWalking" -> 4
      [] cls = "Swimming" -> 5

\* cls(*args): a call with the wrong number of arguments raises TypeError
Construct(cls, args) ==
    IF Len(args) # Arity(cls)
    THEN [exc |-> "TypeError", training |-> NoTraining]
    ELSE [exc |-> "none",
          training |-> CASE cls = "Running" -> Running(args)
                         [] cls = "SportsWalking" -> SportsWalking(args)
                         [] cls = "Swimming" -> Swimming(args)]

----------------------------------------------------------------------------
(* Methods.                                                                *)

Training_get_distance(t) ==
    PyDiv(PyMul(t.action, PyFloat(LEN_STEP(t.cls))), PyInt(M_IN_KM))

get_distance(t) == Training_get_distance(t)

Training_get_mean_speed_Swapped(t) == PyDiv(t.duration, get_distance(t))

Training_get_mean_speed_Guarded(t) ==
    IF RIsZero(t.duration.v) THEN PyFloat(RZero)
    ELSE PyDiv(get_distance(t), t.duration)

Training_get_mean_speed(t) == PyDiv(get_distance(t), t.duration)

Swimming_get_mean_speed(t) ==
    PyDiv(PyDiv(PyMul(t.length_pool, t.count_pool), PyInt(M_IN_KM)), t.duration)

get_mean_speed(t) ==
    IF t.cls = "Swimming" THEN Swimming_get_mean_speed(t)
    ELSE Training_get_mean_speed(t)

Running_get_spent_calories_NoMinutes(t) ==
    LET speed_transform ==
            PyAdd(PyMul(PyInt(Running_SPEED_MULT), get_mean_speed(t)),
                  PyFloat(Running_SPEED_SHIFT))
    IN  PyMul(PyDiv(PyMul(speed_transform, t.weight), PyInt(M_IN_KM)),
              t.duration)

Running_get_spent_calories_OldShift(t) ==
    LET speed_transform ==
            PyAdd(PyMul(PyInt(Running_SPEED_MULT), get_mean_speed(t)),
                  PyInt(-20))
    IN  PyMul(PyMul(PyDiv(PyMul(speed_transform, t.weight), PyInt(M_IN_KM)),
                    t.duration),
              PyInt(MIN_IN_H))

Running_get_spent_calories(t) ==
    LET speed_transform ==
            PyAdd(PyMul(PyInt(Running_SPEED_MULT), get_mean_speed(t)),
                  PyFloat(Running_SPEED_SHIFT))
    IN  PyMul(PyMul(PyDiv(PyMul(speed_transform, t.weight), PyInt(M_IN_KM)),
                    t.duration),
              PyInt(MIN_IN_H))

SportsWalking_get_spent_calories_NoSquare(t) ==
    LET speed_height_ratio ==
            PyDiv(PyMul(get_mean_speed(t), PyFloat(KMH_IN_MSEC)),
                  PyDiv(t.height, PyInt(CM_IN_M)))
        speed_weight_mult ==
            PyAdd(PyMul(PyFloat(WEIGHT_MULT_1), t.weight),
                  PyMul(PyMul(speed_height_ratio, PyFloat(WEIGHT_MULT_2)),
                        t.weight))
    IN  PyMul(PyMul(speed_weight_mult, t.duration), PyInt(MIN_IN_H))

SportsWalking_get_spent_calories(t) ==
    LET speed_height_ratio ==
            PyDiv(PySquare(PyMul(get_mean_speed(t), PyFloat(KMH_IN_MSEC))),
                  PyDiv(t.height, PyInt(CM_IN_M)))
        speed_weight_mult ==
            PyAdd(PyMul(PyFloat(WEIGHT_MULT_1), t.weight),
                  PyMul(PyMul(speed_height_ratio, PyFloat(WEIGHT_MULT_2)),
                        t.weight))
    IN  PyMul(PyMul(speed_weight_mult, t.duration), PyInt(MIN_IN_H))

Swimming_get_spent_calories(t) ==
    PyMul(PyMul(PyMul(PyAdd(get_mean_speed(t), PyFloat(Swimming_SPEED_SHIFT)),
                      PyInt(Swimming_SPEED_MULT)),
                t.weight),
          t.duration)

get_spent_calories(t) ==
    CASE t.cls = "Running" -> Running_get_spent_calories(t)
      [] t.cls = "SportsWalking" -> SportsWalking_get_spent_calories(t)
      [] t.cls = "Swimming" -> Swimming_get_spent_calories(t)

NoInfo ==
    [training_type |-> "none", duration |-> NoValue, distance |-> NoValue,
     speed |-> NoValue, calories |-> NoValue]

InfoMessage(training_type, duration, distance, speed, calories) ==
    [training_type |-> training_type, duration |-> duration,
     distance |-> distance, speed |-> speed, calories |-> calories]

\* The arguments are evaluated in order; the first exception propagates and
\* no InfoMessage is built.
show_training_info(t) ==
    LET distance == get_distance(t)
        speed == get_mean_speed(t)
        calories == get_spent_calories(t)
    IN  IF IsRaise(distance) THEN [exc |-> distance.kind, info |-> NoInfo]
        ELSE IF IsRaise(speed) THEN [exc |-> speed.kind, info |-> NoInfo]
        ELSE IF IsRaise(calories) THEN [exc |-> calories.kind, info |-> NoInfo]
        ELSE [exc |-> "none",
              info |-> InfoMessage(t.cls, t.duration, distance, speed,
                                   calories)]

----------------------------------------------------------------------------
(* read_package.  A package's data is [kind, items]: kind is the Python    *)
(* type of the object passed as data and items its elements when it is     *)
(* iterable.                                                               *)

workout_data ==
    [c \in {"RUN", "WLK", "SWM"} |->
        CASE c = "RUN" -> "Running"
          [] c = "WLK" -> "SportsWalking"
          [] c = "SWM" -> "Swimming"]

\* map(f, data) raises TypeError when data is not iterable
IsIterable(d) == d.kind \in {"list", "tuple"}

check_data_AlwaysTrue(d) == TRUE

check_data(d) == \A i \in 1..Len(d.items) : IsNumber(d.items[i])

read_package_DataFirst(wt, d) ==
    IF ~IsIterable(d)
    THEN [exc |-> "TypeError", training |-> NoTraining]
    ELSE IF d.kind # "list" \/ Len(d.items) < 3 \/ ~check_data(d)
    THEN [exc |-> "ExceptionWorkoutDataError", training |-> NoTraining]
    ELSE IF wt \notin DOMAIN workout_data
    THEN [exc |-> "ExceptionWorkoutTypeError", training |-> NoTraining]
    ELSE Construct(workout_data[wt], d.items)

read_package(wt, d) ==
    IF wt \notin DOMAIN workout_data
    THEN [exc |-> "ExceptionWorkoutTypeError", training |-> NoTraining]
    ELSE IF ~IsIterable(d)
    THEN [exc |-> "TypeError", training |-> NoTraining]
    ELSE IF d.kind # "list" \/ Len(d.items) < 3 \/ ~check_data(d)
    THEN [exc |-> "ExceptionWorkoutDataError", training |-> NoTraining]
    ELSE Construct(workout_data[wt], d.items)

----------------------------------------------------------------------------
(* Inputs.                                                                 *)

\* longest list of small elements tried
MaxLen == 5

List(items) == [kind |-> "list", items |-> items]

\* the test packages of the __main__ block
SamplePackages ==
    [c \in {"RUN", "WLK", "SWM"} |->
        CASE c = "SWM" -> List(<<PyInt(720), PyInt(1), PyInt(80), PyInt(25), PyInt(40)>>)
          [] c = "RUN" -> List(<<PyInt(15000), PyInt(1), PyInt(75)>>)
          [] c = "WLK" -> List(<<PyInt(9000), PyInt(1), PyInt(75), PyInt(180)>>)]

\* an unknown code besides the three registered ones
Codes == {"RUN", "WLK", "SWM", "BIK"}

Elems == {PyInt(0), PyInt(1), PyInt(-2), PyFloat(Dec(3, 2)), PyStr}

Lists == UNION {{List(s) : s \in [1..n -> Elems]} : n \in 0..MaxLen}

NotLists ==
    {[kind |-> "NoneType", items |-> <<>>],
     [kind |-> "int", items |-> <<>>],
     [kind |-> "tuple", items |-> <<PyInt(1), PyInt(1), PyInt(1)>>]}

Packages == Lists \cup NotLists \cup {SamplePackages[c] : c \in DOMAIN SamplePackages}

----------------------------------------------------------------------------
(* The state machine: one package is read, then one method of the record   *)
(* is called.                                                              *)

Init ==
    /\ workout_type \in Codes
    /\ data \in Packages
    /\ pc = "start"
    /\ raised = "none"
    /\ training = NoTraining
    /\ called = "none"
    /\ ret = NoValue
    /\ info = NoInfo

ReadPackage ==
    /\ pc = "start"
    /\ LET r == read_package(workout_type, data)
       IN  /\ raised' = r.exc
           /\ training' = r.training
           /\ pc' = IF r.exc = "none" THEN "built" ELSE "failed"
    /\ called' = "read_package"
    /\ UNCHANGED <<workout_type, data, ret, info>>

Call(name, r) ==
    /\ called' = name
    /\ ret' = IF IsRaise(r) THEN NoValue ELSE r
    /\ raised' = IF IsRaise(r) THEN r.kind ELSE "none"
    /\ pc' = "done"
    /\ UNCHANGED <<workout_type, data, training, info>>

GetDistance ==
    /\ pc = "built"
    /\ Call("get_distance", get_distance(training))

GetMeanSpeed ==
    /\ pc = "built"
    /\ Call("get_mean_speed", get_mean_speed(training))

GetSpentCalories ==
    /\ pc = "built"
    /\ Call("get_spent_calories", get_spent_calories(training))

\* main(training); the text it prints is not modelled
Main ==
    /\ pc = "built"
    /\ LET r == show_training_info(training)
       IN  /\ info' = r.info
           /\ raised' = r.exc
    /\ called' = "show_training_info"
    /\ pc' = "done"
    /\ UNCHANGED <<workout_type, data, training, ret>>

Next ==
    \/ ReadPackage
    \/ GetDistance
    \/ GetMeanSpeed
    \/ GetSpentCalories
    \/ Main

Spec == Init /\ [][Next]_vars

----------------------------------------------------------------------------
(* Properties.                                                             *)

KnownCodes == {"RUN", "WLK", "SWM"}

Items == data.items

AllNumbers == \A i \in 1..Len(Items) : IsNumber(Items[i])

\* the class registered for the package's code ("none" for an unknown code)
Registered ==
    IF workout_type \in DOMAIN workout_data THEN workout_data[workout_type]
    ELSE "none"

\* |x - lit| <= tol
Near(x, lit, tol) == ~RLess(tol, RAbs(RSub(x, lit)))

\* show_training_info was called on a record of class cls
Shown(cls) == called = "show_training_info" /\ training.cls = cls

\* C1: an unknown activity code makes read_package raise
\* ExceptionWorkoutTypeError whatever the reading is (a list, valid or not,
\* or no list at all), and no training record is built.
C1_UnknownCodeRaisesTypeError ==
    (pc # "start" /\ workout_type \notin KnownCodes)
        => /\ pc = "failed"
           /\ called = "read_package"
           /\ raised = "ExceptionWorkoutTypeError"
           /\ training = NoTraining

C1_Witness ==
    /\ pc = "failed"
    /\ workout_type = "BIK"
    /\ data.kind = "NoneType"
    /\ raised = "ExceptionWorkoutTypeError"

\* C2: under a known code, a list of fewer than 3 elements, or a list of any
\* length with an element that is neither int nor float, makes read_package
\* raise ExceptionWorkoutDataError, and no training record is built.
C2_MalformedListRaisesDataError ==
    (/\ pc # "start"
     /\ workout_type \in KnownCodes
     /\ data.kind = "list"
     /\ (Len(Items) < 3 \/ ~AllNumbers))
        => /\ pc = "failed"
           /\ raised = "ExceptionWorkoutDataError"
           /\ training = NoTraining

C2_Witness ==
    /\ pc = "failed"
    /\ workout_type \in KnownCodes
    /\ data.kind = "list"
    /\ Len(Items) = 2
    /\ AllNumbers
    /\ raised = "ExceptionWorkoutDataError"

\* C3: under a known code, a reading that is no sequence at all (a single
\* number, None) makes read_package raise ExceptionWorkoutDataError.
C3_NonSequenceRaisesDataError ==
    (/\ pc # "start"
     /\ workout_type \in KnownCodes
     /\ data.kind \in {"int", "NoneType"})
        => /\ pc = "failed"
           /\ raised = "ExceptionWorkoutDataError"

\* C4: read_package ends in exactly one of three ways: a record of the class
\* registered for the code, ExceptionWorkoutTypeError or
\* ExceptionWorkoutDataError; and every list of 3 to 5 numbers under a known
\* code yields a record, whatever the number of values the activity takes.
C4_OnlyThreeOutcomes ==
    (pc # "start")
        => /\ \/ /\ pc = "failed"
                 /\ raised \in {"ExceptionWorkoutTypeError",
                                "ExceptionWorkoutDataError"}
              \/ /\ pc # "failed"
                 /\ workout_type \in KnownCodes
                 /\ training.cls = Registered
           /\ (/\ workout_type \in KnownCodes
               /\ data.kind = "list"
               /\ Len(Items) \in 3..5
               /\ AllNumbers)
                  => pc # "failed"

\* C5 as stated: for a Swimming record with nonzero duration the report has
\* distance = (length_pool * count_pool) * 1.38 / 1000,
\* speed = length_pool * count_pool / 1000 / duration and
\* calories = (speed + 1.1) * 2 * weight * duration.
C5_SwimmingReport_Original ==
    (Shown("Swimming") /\ ~RIsZero(Items[2].v))
        => LET speed == RDiv(RDiv(RMul(Items[4].v, Items[5].v), Num(1000)),
                             Items[2].v)
           IN  /\ raised = "none"
               /\ REq(info.distance.v,
                      RDiv(RMul(RMul(Items[4].v, Items[5].v), Dec(138, 100)),
                           Num(1000)))
               /\ REq(info.speed.v, speed)
               /\ REq(info.calories.v,
                      RMul(RMul(RMul(RAdd(speed, Dec(11, 10)), Num(2)),
                                Items[3].v),
                           Items[2].v))

\* C5 as amended: the distance is the stroke count (the first value of the
\* reading) * 1.38 / 1000; speed and calories are as stated.
C5_SwimmingReport ==
    (Shown("Swimming") /\ ~RIsZero(Items[2].v))
        => LET speed == RDiv(RDiv(RMul(Items[4].v, Items[5].v), Num(1000)),
                             Items[2].v)
           IN  /\ raised = "none"
               /\ info.training_type = "Swimming"
               /\ REq(info.distance.v,
                      RDiv(RMul(Items[1].v, Dec(138, 100)), Num(1000)))
               /\ REq(info.speed.v, speed)
               /\ REq(info.calories.v,
                      RMul(RMul(RMul(RAdd(speed, Dec(11, 10)), Num(2)),
                                Items[3].v),
                           Items[2].v))

C5_Witness ==
    /\ Shown("Swimming")
    /\ data = SamplePackages["SWM"]
    /\ raised = "none"
    /\ ~REq(info.distance.v, info.speed.v)

\* main was run on the sample package of code c
SampleShown(c) ==
    /\ called = "show_training_info"
    /\ workout_type = c
    /\ data = SamplePackages[c]

\* C6 as stated: the sample readings give RUN distance 9.75, speed 9.75,
\* calories 779.886; WLK distance 5.85, speed 5.85, calories 157.02; SWM
\* speed 1.0, calories 336.0, each to the last decimal place written.
C6_SampleValues_Original ==
    /\ SampleShown("RUN")
           => /\ raised = "none"
              /\ Near(info.distance.v, Dec(975, 100), Dec(5, 1000))
              /\ Near(info.speed.v, Dec(975, 100), Dec(5, 1000))
              /\ Near(info.calories.v, Dec(779886, 1000), Dec(5, 10000))
    /\ SampleShown("WLK")
           => /\ raised = "none"
              /\ Near(info.distance.v, Dec(585, 100), Dec(5, 1000))
              /\ Near(info.speed.v, Dec(585, 100), Dec(5, 1000))
              /\ Near(info.calories.v, Dec(15702, 100), Dec(5, 1000))
    /\ SampleShown("SWM")
           => /\ raised = "none"
              /\ Near(info.speed.v, Dec(10, 10), Dec(5, 100))
              /\ Near(info.calories.v, Dec(3360, 10), Dec(5, 100))

\* C6 as amended: the RUN calories are 797.805 and the WLK calories 349.25;
\* the other sample values are as stated.
C6_SampleValues ==
    /\ SampleShown("RUN")
           => /\ raised = "none"
              /\ Near(info.distance.v, Dec(975, 100), Dec(5, 1000))
              /\ Near(info.speed.v, Dec(975, 100), Dec(5, 1000))
              /\ Near(info.calories.v, Dec(797805, 1000), Dec(5, 10000))
    /\ SampleShown("WLK")
           => /\ raised = "none"
              /\ Near(info.distance.v, Dec(585, 100), Dec(5, 1000))
              /\ Near(info.speed.v, Dec(585, 100), Dec(5, 1000))
              /\ Near(info.calories.v, Dec(34925, 100), Dec(5, 1000))
    /\ SampleShown("SWM")
           => /\ raised = "none"
              /\ Near(info.speed.v, Dec(10, 10), Dec(5, 100))
              /\ Near(info.calories.v, Dec(3360, 10), Dec(5, 100))

C6_Witness ==
    /\ SampleShown("WLK")
    /\ raised = "none"
    /\ info.training_type = "SportsWalking"
    /\ RLess(Num(349), info.calories.v)

\* C7: for a Running record with nonzero duration the report has
\* distance = steps * 0.65 / 1000, speed = distance / duration,
\* calories = (18 * speed + 1.79) * weight / 1000 * duration * 60, and the
\* input duration as its duration.
C7_RunningReport ==
    (Shown("Running") /\ ~RIsZero(Items[2].v))
        => LET distance == RDiv(RMul(Items[1].v, Dec(65, 100)), Num(1000))
               speed == RDiv(distance, Items[2].v)
           IN  /\ raised = "none"
               /\ info.training_type = "Running"
               /\ info.duration = Items[2]
               /\ REq(info.distance.v, distance)
               /\ REq(info.speed.v, speed)
               /\ REq(info.calories.v,
                      RMul(RMul(RDiv(RMul(RAdd(RMul(Num(18), speed),
                                               Dec(179, 100)),
                                          Items[3].v),
                                     Num(1000)),
                                Items[2].v),
                           Num(60)))

C7_Witness ==
    /\ Shown("Running")
    /\ Items[2] = PyFloat(Dec(3, 2))
    /\ raised = "none"
    /\ ~RIsZero(info.calories.v)

\* C8: for a SportsWalking record with nonzero duration and nonzero height
\* the report has distance = steps * 0.65 / 1000, speed = distance /
\* duration and calories = (0.035 * weight + (v^2 / h) * 0.029 * weight)
\* * duration * 60 with v = speed * 0.278 and h = height / 100.
C8_WalkingReport ==
    (Shown("SportsWalking") /\ ~RIsZero(Items[2].v) /\ ~RIsZero(Items[4].v))
        => LET distance == RDiv(RMul(Items[1].v, Dec(65, 100)), Num(1000))
               speed == RDiv(distance, Items[2].v)
               v_ms == RMul(speed, Dec(278, 1000))
               h_m == RDiv(Items[4].v, Num(100))
           IN  /\ raised = "none"
               /\ info.training_type = "SportsWalking"
               /\ REq(info.distance.v, distance)
               /\ REq(info.speed.v, speed)
               /\ REq(info.calories.v,
                      RMul(RMul(RAdd(RMul(Dec(35, 1000), Items[3].v),
                                     RMul(RMul(RDiv(RMul(v_ms, v_ms), h_m),
                                               Dec(29, 1000)),
                                          Items[3].v)),
                                Items[2].v),
                           Num(60)))

C8_Witness ==
    /\ Shown("SportsWalking")
    /\ Items[1] = PyFloat(Dec(3, 2))
    /\ Items[4] = PyInt(-2)
    /\ raised = "none"
    /\ ~RIsZero(info.calories.v)

\* every value of the reading is a number >= 0
NonNegativeReading ==
    \A i \in 1..Len(Items) : IsNumber(Items[i]) /\ RNonNeg(Items[i].v)

\* C9: on a record built from a reading of non-negative values with nonzero
\* duration, get_distance and get_mean_speed return a value >= 0, for each
\* of the three activity types.
C9_NonNegativeDistanceAndSpeed ==
    (/\ pc = "done"
     /\ called \in {"get_distance", "get_mean_speed"}
     /\ NonNegativeReading
     /\ ~RIsZero(Items[2].v))
        => /\ raised = "none"
           /\ IsNumber(ret)
           /\ RNonNeg(ret.v)

C9_Witness ==
    /\ pc = "done"
    /\ called = "get_mean_speed"
    /\ training.cls = "Swimming"
    /\ NonNegativeReading
    /\ raised = "none"
    /\ RLess(RZero, ret.v)

\* the reading is a list of numbers, as many as the activity takes, whose
\* duration is 0
ZeroDurationReading ==
    /\ workout_type \in KnownCodes
    /\ data.kind = "list"
    /\ AllNumbers
    /\ Len(Items) = Arity(Registered)
    /\ RIsZero(Items[2].v)

\* C10: a zero duration is not rejected by read_package: the record is
\* built, get_distance returns its value, and get_mean_speed,
\* get_spent_calories and show_training_info raise ZeroDivisionError, which
\* is neither of the two package errors.
C10_ZeroDurationFailsLate ==
    (pc # "start" /\ ZeroDurationReading)
        => /\ pc # "failed"
           /\ training.cls = Registered
           /\ called = "read_package" => raised = "none"
           /\ called = "get_distance"
                  => /\ raised = "none"
                     /\ IsNumber(ret)
                     /\ REq(ret.v,
                            RDiv(RMul(Items[1].v,
                                      IF workout_type = "SWM"
                                      THEN Dec(138, 100) ELSE Dec(65, 100)),
                                 Num(1000)))
           /\ called \in {"get_mean_speed", "get_spent_calories",
                          "show_training_info"}
                  => /\ raised = "ZeroDivisionError"
                     /\ ret = NoValue
                     /\ info = NoInfo

C10_Witness ==
    /\ ZeroDurationReading
    /\ workout_type = "SWM"
    /\ called = "show_training_info"
    /\ raised = "ZeroDivisionError"

====
